---------------------------- MODULE Spec2Model ----------------------------
(***************************************************************************)
(* Model of main.py: backend resolution in main(), the evaluation loop of  *)
(* validata(), the clock helper _time(), and the AverageMeter and          *)
(* ProgressMeter classes.                                                  *)
(*                                                                         *)
(* Durations are integer clock ticks.  Python's true division sum / count  *)
(* is modelled exactly, as a fraction in lowest terms <<num, den>>.        *)
(* Collaborators outside main.py (torch, classy_vision) are modelled by    *)
(* their visible effect only: nn.Module starts in training mode and eval() *)
(* clears the flag; torch.no_grad() saves the gradient mode, disables it   *)
(* and restores it on exit; work issued to a CUDA device stays outstanding *)
(* until torch.cuda.synchronize() returns.                                 *)
(***************************************************************************)
EXTENDS Integers, Sequences, FiniteSets, TLC

\* ------------------------------------------------------------------ bounds
MaxBatches == 4      \* len(iterator) ranges over 0..MaxBatches
MaxFreq == 2         \* --print-freq ranges over 0..MaxFreq
MaxTicks == 1        \* a batch takes 0..MaxTicks host ticks to arrive and
                     \* a forward pass 1..MaxTicks ticks of compute
MaxCalls == 3        \* update calls made on the meter under test
MaxVal == 2          \* values passed to update range over 0..MaxVal
MaxWeight == 2       \* weights passed to update range over 1..MaxWeight

VARIABLES
    args,            \* the parsed argparse namespace (plus args.cuda)
    cuda_available,  \* torch.cuda.is_available()
    num_batches,     \* len(iterator): batches the data source yields
    pc,              \* position of the control thread
    backend,         \* backend main() announced ("none" before it does)
    fault,           \* exception that ended the process ("none" if none)
    training,        \* model.training
    model_repr,      \* representation of the model's parameters
    grad_enabled,    \* torch.is_grad_enabled()
    no_grad_prev,    \* mode saved by torch.no_grad().__enter__
    mode_before,     \* <<training, grad_enabled>> on entry to validata
    batch_time, data_time, losses,   \* the three AverageMeter instances
    progress,        \* the ProgressMeter
    i,               \* enumerate index of the batch in hand
    end,             \* the local variable end
    clock,           \* time.time()
    outstanding,     \* ticks of device work issued and not yet completed
    timeLog,         \* one entry per clock read of _time
    convLog,         \* one entry per batch: representation of its tensors
    forwardLog,      \* batch indices given to the model, in order
    fetched,         \* batches taken from the iterator
    reports,         \* lines printed by progress.display, in order, each with
                     \* the batch index and the meters' counts at the call
    meter,           \* AverageMeter under test
    fresh,           \* a freshly constructed AverageMeter given the same updates
    calls,           \* update calls on meter since it was last reset
    was_reset,       \* reset() has been called on meter
    reset_from       \* meter.count when reset() was last called

loopVars == <<args, cuda_available, num_batches, pc, backend, fault, training,
              model_repr, grad_enabled, no_grad_prev, mode_before, batch_time,
              data_time, losses, progress, i, end, clock, outstanding, timeLog,
              convLog, forwardLog, fetched, reports>>
meterVars == <<meter, fresh, calls, was_reset, reset_from>>
vars == <<loopVars, meterVars>>

\* ------------------------------------------------------------ arithmetic
RECURSIVE GCD(_, _)
GCD(a, b) == IF b = 0 THEN a ELSE GCD(b, a % b)

Abs(a) == IF a < 0 THEN -a ELSE a

\* a / b for b > 0, exactly, in lowest terms
TrueDiv(a, b) ==
    LET g == GCD(Abs(a), b)
    IN <<a \div g, b \div g>>

DigitChar(d) == <<"0", "1", "2", "3", "4", "5", "6", "7", "8", "9">>[d + 1]

\* str(n) for n >= 0, as the sequence of its characters
RECURSIVE Str(_)
Str(n) == IF n < 10 THEN <<DigitChar(n)>>
          ELSE Str(n \div 10) \o <<DigitChar(n % 10)>>

RECURSIVE Spaces(_)
Spaces(k) == IF k <= 0 THEN <<>> ELSE <<" ">> \o Spaces(k - 1)

\* '{:<width>d}'.format(n) for n >= 0: right-aligned, never truncated
FormatD(n, width) == Spaces(width - Len(Str(n))) \o Str(n)

\* ---------------------------------------------------------- AverageMeter
\* variant: reset() forgets to zero sum
reset_keeps_sum(m) == [m EXCEPT !.val = 0, !.avg = <<0, 1>>, !.count = 0]

reset(m) == [m EXCEPT !.val = 0, !.avg = <<0, 1>>, !.sum = 0, !.count = 0]

\* __init__: name and fmt are stored, then reset() gives the rest their values
AverageMeter(name, fmt) ==
    reset([name |-> name, fmt |-> fmt, val |-> 0, avg |-> <<0, 1>>,
           sum |-> 0, count |-> 0])

\* variant: update() adds val to sum, not val * n
update_unweighted(m, val, n) ==
    LET s == m.sum + val
        c == m.count + n
    IN [m EXCEPT !.val = val, !.sum = s, !.count = c, !.avg = TrueDiv(s, c)]

update(m, val, n) ==
    LET s == m.sum + val * n
        c == m.count + n
    IN [m EXCEPT !.val = val, !.sum = s, !.count = c, !.avg = TrueDiv(s, c)]

\* __str__: the fields the format string renders
MeterStr(m) == [name |-> m.name, fmt |-> m.fmt, val |-> m.val, avg |-> m.avg]

\* --------------------------------------------------------- ProgressMeter
\* variant: the digits are counted by dividing until nothing is left
RECURSIVE num_digits_by_division(_)
num_digits_by_division(n) ==
    IF n = 0 THEN 0 ELSE 1 + num_digits_by_division(n \div 10)

\* num_digits = len(str(num_batches // 1))
num_digits(n) == Len(Str(n \div 1))

_get_batch_fmtstr(n) ==
    [width |-> num_digits(n), total |-> FormatD(n, num_digits(n))]

ProgressMeter(n, prefix) ==
    [batch_fmtstr |-> _get_batch_fmtstr(n), prefix |-> prefix]

\* the line display prints: prefix, '[' index '/' total ']', one entry per meter
display(p, batch, ms) ==
    [prefix |-> p.prefix,
     index |-> FormatD(batch, p.batch_fmtstr.width),
     total |-> p.batch_fmtstr.total,
     entries |-> [k \in 1..Len(ms) |-> MeterStr(ms[k])]]

\* ----------------------------------------------------------------- _time
\* torch.cuda.synchronize(): returns once the device has completed all the
\* work issued to it; the host clock has advanced by that work meanwhile
synchronize(clk, out) == [clock |-> clk + out, outstanding |-> 0]

\* variant: _time reads the clock without the barrier
_time_no_barrier(use_cuda, clk, out) ==
    [t |-> clk, clock |-> clk, outstanding |-> out,
     barrier |-> FALSE, pending |-> out]

\* the value returned (t), the clock and the device after the call, and what
\* the call did: whether it issued the barrier, and the work still outstanding
\* on the device when time.time() was read
_time(use_cuda, clk, out) ==
    LET s == IF use_cuda THEN synchronize(clk, out)
             ELSE [clock |-> clk, outstanding |-> out]
    IN [t |-> s.clock, clock |-> s.clock, outstanding |-> s.outstanding,
        barrier |-> use_cuda, pending |-> s.outstanding]

TimeEntry(site, batch, tm) ==
    [site |-> site, batch |-> batch, barrier |-> tm.barrier, pending |-> tm.pending]

\* ------------------------------------------------------------------ main
\* variant: args.cuda = not args.no_cuda
ResolveCuda_requested(no_cuda, available) == ~no_cuda

\* args.cuda = not args.no_cuda and torch.cuda.is_available()
ResolveCuda(no_cuda, available) == ~no_cuda /\ available

\* variant: the check is left out
BackendConflict_unchecked(cuda, mkldnn) == FALSE

\* the condition of the assert False
BackendConflict(cuda, mkldnn) == cuda /\ mkldnn

\* the backend the if/elif/else announces
Backend(cuda, mkldnn) ==
    IF cuda THEN "Accelerator"
    ELSE IF mkldnn THEN "OptimizedCPU"
    ELSE "PlainCPU"

Unbound == [name |-> "unbound", fmt |-> "", val |-> 0, avg |-> <<0, 1>>,
            sum |-> 0, count |-> 0]

LoopInit ==
    /\ args \in [no_cuda : BOOLEAN, mkldnn : BOOLEAN, evaluate : BOOLEAN,
                 print_freq : 0..MaxFreq, cuda : {FALSE}]
    /\ cuda_available \in BOOLEAN
    /\ num_batches \in 0..MaxBatches
    /\ pc = "main"
    /\ backend = "none"
    /\ fault = "none"
    /\ training = TRUE
    /\ model_repr = "cpu"
    /\ grad_enabled = TRUE
    /\ no_grad_prev = TRUE
    /\ mode_before = <<TRUE, TRUE>>
    /\ batch_time = Unbound
    /\ data_time = Unbound
    /\ losses = Unbound
    /\ progress = ProgressMeter(0, "")
    /\ i = -1
    /\ end = 0
    /\ clock = 0
    /\ outstanding = 0
    /\ timeLog = <<>>
    /\ convLog = <<>>
    /\ forwardLog = <<>>
    /\ fetched = 0
    /\ reports = <<>>

MeterInit ==
    /\ meter = AverageMeter("Time", ":6.3f")
    /\ fresh = AverageMeter("Time", ":6.3f")
    /\ calls = <<>>
    /\ was_reset = FALSE
    /\ reset_from = 0

Init == LoopInit /\ MeterInit

\* main() up to the call of validata or train
Main ==
    /\ pc = "main"
    /\ LET cuda == ResolveCuda(args.no_cuda, cuda_available) IN
        /\ args' = [args EXCEPT !.cuda = cuda]
        /\ IF BackendConflict(cuda, args.mkldnn)
           THEN /\ fault' = "AssertionError"
                /\ pc' = "aborted"
                /\ UNCHANGED <<backend, training, model_repr>>
           ELSE /\ backend' = Backend(cuda, args.mkldnn)
                /\ IF args.mkldnn /\ args.evaluate
                   THEN training' = FALSE /\ model_repr' = "mkldnn"
                   ELSE UNCHANGED <<training, model_repr>>
                \* the non-evaluate mkldnn branch reads the undefined name
                \* mkldnn_head_fc
                /\ fault' = IF args.mkldnn /\ ~args.evaluate
                            THEN "NameError" ELSE "none"
                /\ pc' = IF args.mkldnn /\ ~args.evaluate THEN "aborted"
                         ELSE IF args.evaluate THEN "validata"
                         ELSE "train"
    /\ UNCHANGED <<cuda_available, num_batches, grad_enabled, no_grad_prev,
                   mode_before, batch_time, data_time, losses, progress, i,
                   end, clock, outstanding, timeLog, convLog, forwardLog,
                   fetched, reports, meterVars>>

\* variant: the loop body catches the exception and goes on to the next batch
Raise_and_continue(exc) ==
    /\ fault' = exc
    /\ pc' = "fetch"
    /\ UNCHANGED grad_enabled

\* an exception leaving the with torch.no_grad() block and the process
Raise(exc) ==
    /\ fault' = exc
    /\ pc' = "aborted"
    /\ grad_enabled' = no_grad_prev

\* validata() up to the for statement
ValidataStart ==
    /\ pc = "validata"
    /\ mode_before' = <<training, grad_enabled>>
    /\ batch_time' = AverageMeter("Time", ":6.3f")
    /\ data_time' = AverageMeter("Data", ":6.3f")
    /\ losses' = AverageMeter("Loss", ":.4e")
    /\ progress' = ProgressMeter(num_batches, "Test: ")
    /\ IF args.cuda
       THEN training' = FALSE /\ model_repr' = "cuda"
       ELSE UNCHANGED <<training, model_repr>>
    /\ no_grad_prev' = grad_enabled
    /\ grad_enabled' = FALSE
    /\ LET tm == _time(args.cuda, clock, outstanding) IN
        /\ end' = tm.t
        /\ clock' = tm.clock
        /\ outstanding' = tm.outstanding
        /\ timeLog' = Append(timeLog, TimeEntry("start", -1, tm))
    /\ pc' = "fetch"
    /\ UNCHANGED <<args, cuda_available, num_batches, backend, fault, i,
                   convLog, forwardLog, fetched, reports, meterVars>>

\* the for statement takes the next sample, or ends the loop and the with block
FetchInput ==
    /\ pc = "fetch"
    /\ \/ /\ fetched < num_batches
          /\ \E d \in 0..MaxTicks :
                LET tm == _time(args.cuda, clock + d, outstanding) IN
                /\ data_time' = update(data_time, tm.t - end, 1)
                /\ clock' = tm.clock
                /\ outstanding' = tm.outstanding
                /\ timeLog' = Append(timeLog, TimeEntry("data", fetched, tm))
          /\ i' = fetched
          /\ fetched' = fetched + 1
          /\ pc' = "convert"
          /\ UNCHANGED grad_enabled
       \/ /\ fetched >= num_batches
          /\ grad_enabled' = no_grad_prev
          /\ pc' = "done"
          /\ UNCHANGED <<data_time, clock, outstanding, timeLog, i, fetched>>
    /\ UNCHANGED <<args, cuda_available, num_batches, backend, fault, training,
                   model_repr, no_grad_prev, mode_before, batch_time, losses,
                   progress, end, convLog, forwardLog, reports, meterVars>>

\* the representation each tensor of the sample has after the if/elif
Converted(cuda, mkldnn) ==
    IF cuda THEN [video |-> "cuda", audio |-> "cuda", target |-> "cuda"]
    ELSE IF mkldnn THEN [video |-> "mkldnn", audio |-> "mkldnn", target |-> "cpu"]
    ELSE [video |-> "cpu", audio |-> "cpu", target |-> "cpu"]

Convert ==
    /\ pc = "convert"
    /\ convLog' = Append(convLog, Converted(args.cuda, args.mkldnn))
    /\ pc' = "forward"
    /\ UNCHANGED <<args, cuda_available, num_batches, backend, fault, training,
                   model_repr, grad_enabled, no_grad_prev, mode_before,
                   batch_time, data_time, losses, progress, i, end, clock,
                   outstanding, timeLog, forwardLog, fetched, reports, meterVars>>

\* w ticks of compute: queued on the device under CUDA, on the host otherwise
Compute(w) ==
    IF args.cuda
    THEN outstanding' = outstanding + w /\ UNCHANGED clock
    ELSE clock' = clock + w /\ UNCHANGED outstanding

\* output = model(inputs)
Forward ==
    /\ pc = "forward"
    /\ forwardLog' = Append(forwardLog,
            [batch |-> i, training |-> training, grad_enabled |-> grad_enabled])
    /\ \E raises \in BOOLEAN, w \in 1..MaxTicks :
          IF raises
          THEN Raise("forward") /\ UNCHANGED <<clock, outstanding>>
          ELSE Compute(w) /\ pc' = "loss" /\ UNCHANGED <<fault, grad_enabled>>
    /\ UNCHANGED <<args, cuda_available, num_batches, backend, training,
                   model_repr, no_grad_prev, mode_before, batch_time, data_time,
                   losses, progress, i, end, timeLog, convLog, fetched, reports,
                   meterVars>>

\* loss_data = loss(output, target); loss_data is not read afterwards
ComputeLoss ==
    /\ pc = "loss"
    /\ \E raises \in BOOLEAN :
          IF raises
          THEN Raise("loss") /\ UNCHANGED <<clock, outstanding>>
          ELSE Compute(1) /\ pc' = "record" /\ UNCHANGED <<fault, grad_enabled>>
    /\ UNCHANGED <<args, cuda_available, num_batches, backend, training,
                   model_repr, no_grad_prev, mode_before, batch_time, data_time,
                   losses, progress, i, end, timeLog, convLog, forwardLog,
                   fetched, reports, meterVars>>

\* batch_time.update(_time(args.cuda) - end); end = _time(args.cuda)
RecordStats ==
    /\ pc = "record"
    /\ LET tm1 == _time(args.cuda, clock, outstanding)
           tm2 == _time(args.cuda, tm1.clock, tm1.outstanding)
       IN /\ batch_time' = update(batch_time, tm1.t - end, 1)
          /\ end' = tm2.t
          /\ clock' = tm2.clock
          /\ outstanding' = tm2.outstanding
          /\ timeLog' = timeLog \o <<TimeEntry("batch", i, tm1), TimeEntry("end", i, tm2)>>
    /\ pc' = "report"
    /\ UNCHANGED <<args, cuda_available, num_batches, backend, fault, training,
                   model_repr, grad_enabled, no_grad_prev, mode_before,
                   data_time, losses, progress, i, convLog, forwardLog, fetched,
                   reports, meterVars>>

\* variant: (i + 1) % args.print_freq == 0
ShouldReport_off_by_one(batch, print_freq) == (batch + 1) % print_freq = 0

\* i % args.print_freq == 0, for print_freq # 0
ShouldReport(batch, print_freq) == batch % print_freq = 0

\* if i % args.print_freq == 0: progress.display(i)
MaybeReport ==
    /\ pc = "report"
    /\ IF args.print_freq = 0
       THEN Raise("ZeroDivisionError") /\ UNCHANGED reports
       ELSE /\ reports' = IF ShouldReport(i, args.print_freq)
                          THEN Append(reports,
                                 [line |-> display(progress, i,
                                              <<batch_time, data_time, losses>>),
                                  batch |-> i,
                                  counts |-> <<batch_time.count, data_time.count,
                                               losses.count>>])
                          ELSE reports
            /\ pc' = "fetch"
            /\ UNCHANGED <<fault, grad_enabled>>
    /\ UNCHANGED <<args, cuda_available, num_batches, backend, training,
                   model_repr, no_grad_prev, mode_before, batch_time, data_time,
                   losses, progress, i, end, clock, outstanding, timeLog,
                   convLog, forwardLog, fetched, meterVars>>

Next ==
    \/ Main
    \/ ValidataStart
    \/ FetchInput
    \/ Convert
    \/ Forward
    \/ ComputeLoss
    \/ RecordStats
    \/ MaybeReport

Spec == Init /\ [][Next]_vars

\* ------------------------------------------- AverageMeter, any call sequence
MeterUpdate ==
    /\ Len(calls) < MaxCalls
    /\ \E v \in 0..MaxVal, n \in 1..MaxWeight :
          /\ meter' = update(meter, v, n)
          /\ fresh' = update(fresh, v, n)
          /\ calls' = Append(calls, <<v, n>>)
    /\ UNCHANGED <<was_reset, reset_from, loopVars>>

MeterReset ==
    /\ meter' = reset(meter)
    /\ fresh' = AverageMeter(meter.name, meter.fmt)
    /\ calls' = <<>>
    /\ was_reset' = TRUE
    /\ reset_from' = meter.count
    /\ UNCHANGED loopVars

LoopIdle ==
    /\ LoopInit
    /\ args = [no_cuda |-> FALSE, mkldnn |-> FALSE, evaluate |-> FALSE,
               print_freq |-> 1, cuda |-> FALSE]
    /\ cuda_available = FALSE
    /\ num_batches = 0

InitMeter == LoopIdle /\ MeterInit

MeterNext == MeterUpdate \/ MeterReset

SpecMeter == InitMeter /\ [][MeterNext]_vars

\* ---------------------------------------------------------------- claims
InLoopFault == fault \in {"forward", "loss"}

\* batches whose loop body has run to its end
Completed == IF pc \in {"convert", "forward", "loss", "record", "report"}
             THEN fetched - 1 ELSE fetched

ReprOf(b) == IF b = "Accelerator" THEN "cuda"
             ELSE IF b = "OptimizedCPU" THEN "mkldnn" ELSE "cpu"

RECURSIVE SumWeighted(_)
SumWeighted(cs) ==
    IF cs = <<>> THEN 0 ELSE cs[1][1] * cs[1][2] + SumWeighted(Tail(cs))

RECURSIVE SumWeights(_)
SumWeights(cs) == IF cs = <<>> THEN 0 ELSE cs[1][2] + SumWeights(Tail(cs))

\* C1, as stated: once main has resolved the backend with the accelerator
\* requested (no --no-cuda) and --mkldnn given, the process has failed with the
\* configuration error, whether or not the accelerator is available; no
\* backend was announced and no batch was processed.
C1_ErrorForEveryAvailability ==
    (~args.no_cuda /\ args.mkldnn /\ pc # "main")
        => /\ fault = "AssertionError"
           /\ backend = "none"
           /\ fetched = 0

\* C1, amended: with the accelerator requested and --mkldnn given, main fails
\* with the configuration error exactly when the accelerator is available (no
\* backend announced, no batch processed); when it is unavailable there is no
\* configuration error and the backend resolves to OptimizedCPU.
C1_ErrorWhenAcceleratorAvailable ==
    (~args.no_cuda /\ args.mkldnn /\ pc # "main")
        => IF cuda_available
           THEN /\ fault = "AssertionError"
                /\ pc = "aborted"
                /\ backend = "none"
                /\ fetched = 0
                /\ forwardLog = <<>>
           ELSE /\ fault # "AssertionError"
                /\ backend = "OptimizedCPU"

C1_Witness ==
    /\ ~args.no_cuda /\ args.mkldnn /\ cuda_available
    /\ pc = "aborted"
    /\ fault = "AssertionError"

\* C2: when a run has ended in done without a fault, each of batch_time,
\* data_time and losses has count equal to the number of batches yielded.
C2_EveryStatCountsEveryBatch ==
    (pc = "done" /\ fault = "none")
        => /\ batch_time.count = num_batches
           /\ data_time.count = num_batches
           /\ losses.count = num_batches

\* C3: under the Accelerator backend every clock read of the loop follows a
\* completed barrier, with no device work outstanding at the read; under the
\* other backends no clock read issues a barrier.  A finished run has read
\* the clock once at the start and three times per batch.
C3_BarrierBeforeEveryClockRead ==
    /\ \A k \in 1..Len(timeLog) :
          IF backend = "Accelerator"
          THEN timeLog[k].barrier /\ timeLog[k].pending = 0
          ELSE ~timeLog[k].barrier
    /\ pc = "done" => Len(timeLog) = 1 + 3 * num_batches

C3_Witness ==
    /\ backend = "Accelerator"
    /\ pc = "report"
    /\ batch_time.val >= 2
    /\ \E k \in 1..Len(timeLog) : timeLog[k].site = "end" /\ timeLog[k].barrier

\* C4: once the forward pass or the loss has raised on batch i, the run is
\* aborted: batch i is the last one fetched, converted and forwarded, every
\* batch was forwarded once, and no line for batch i or later was printed.
C4_FaultAbortsRun ==
    InLoopFault
        => /\ pc = "aborted"
           /\ fetched = i + 1
           /\ Len(convLog) = i + 1
           /\ Len(forwardLog) = i + 1
           /\ \A k \in 1..Len(forwardLog) : forwardLog[k].batch = k - 1
           /\ \A k \in 1..Len(reports) : reports[k].batch < i

C4_Witness ==
    /\ fault = "forward"
    /\ i = 1
    /\ num_batches = MaxBatches
    /\ Len(reports) = 1

\* C5: with a data source of 0 batches, validata goes from the loop head
\* straight to done: no line is printed, no meter is updated (counts 0, avg
\* the initial 0), no fault is raised, and the index width is 1.
C5_EmptySourceEndsCleanly ==
    (num_batches = 0 /\ pc \in {"fetch", "convert", "forward", "loss",
                                "record", "report", "done"})
        => /\ pc \in {"fetch", "done"}
           /\ fault = "none"
           /\ reports = <<>>
           /\ fetched = 0
           /\ \A m \in {batch_time, data_time, losses} :
                 m.count = 0 /\ m.sum = 0 /\ m.avg = <<0, 1>>
           /\ progress.batch_fmtstr.width = 1
           /\ progress.batch_fmtstr.total = <<"0">>

C5_Witness ==
    /\ num_batches = 0
    /\ pc = "done"
    /\ Len(timeLog) = 1

\* C6: the model is in inference mode (eval mode, gradients off) at every
\* forward pass under each backend, and when the run has ended, by exhaustion
\* or by a fault in the forward pass or the loss, the mode is the one that
\* held before the run.
C6_InferenceModeScoped ==
    /\ \A k \in 1..Len(forwardLog) :
          ~forwardLog[k].training /\ ~forwardLog[k].grad_enabled
    /\ (pc = "done" \/ InLoopFault)
          => <<training, grad_enabled>> = mode_before

\* C7: after a non-empty sequence of update calls on a meter, sum and count
\* are the totals of v * n and of n, avg is their quotient, and val is the v
\* of the last call.
C7_AverageIsWeightedMean ==
    Len(calls) > 0
        => /\ meter.sum = SumWeighted(calls)
           /\ meter.count = SumWeights(calls)
           /\ meter.avg[2] > 0
           /\ meter.avg[1] * SumWeights(calls) = meter.avg[2] * SumWeighted(calls)
           /\ meter.val = calls[Len(calls)][1]

C7_Witness ==
    /\ Len(calls) >= 2
    /\ calls[1][1] # calls[2][1]
    /\ calls[1][2] # calls[2][2]
    /\ meter.avg[2] > 1

\* C8: with the accelerator requested and --mkldnn not given, main announces
\* Accelerator when the accelerator is available and PlainCPU when it is not,
\* without a configuration error, and every batch is converted for that
\* backend.
C8_AcceleratorOrPlainFallback ==
    (~args.no_cuda /\ ~args.mkldnn /\ pc # "main")
        => LET b == IF cuda_available THEN "Accelerator" ELSE "PlainCPU" IN
           /\ backend = b
           /\ fault \notin {"AssertionError", "NameError"}
           /\ args.cuda = cuda_available
           /\ \A k \in 1..Len(convLog) :
                 /\ convLog[k].video = ReprOf(b)
                 /\ convLog[k].audio = ReprOf(b)
                 /\ convLog[k].target = ReprOf(b)
           /\ \A k \in 1..Len(timeLog) : timeLog[k].barrier = cuda_available

C8_Witness ==
    /\ ~args.no_cuda /\ ~args.mkldnn /\ ~cuda_available
    /\ backend = "PlainCPU"
    /\ Len(convLog) >= 2

\* C9: after reset(), and after any updates that follow it, the meter equals
\* a freshly constructed one given the same updates.
C9_ResetEqualsFresh ==
    was_reset
        => /\ meter.val = fresh.val
           /\ meter.sum = fresh.sum
           /\ meter.count = fresh.count
           /\ meter.avg = fresh.avg
           /\ meter.name = fresh.name
           /\ meter.fmt = fresh.fmt

C9_Witness ==
    /\ was_reset
    /\ reset_from > 1
    /\ Len(calls) >= 2
    /\ meter.sum > 0

\* C10: in a run without fault and with print_freq >= 1, the lines printed
\* so far are those of the completed batches whose index is a multiple of
\* print_freq, one each, in increasing order, each printed after that batch's
\* batch_time and data_time updates; with print_freq = 1 a finished run has
\* printed one line per batch.
C10_ReportEveryPrintFreq ==
    (fault = "none" /\ args.print_freq >= 1)
        => /\ Len(reports) =
                Cardinality({j \in 0..(Completed - 1) : j % args.print_freq = 0})
           /\ \A k \in 1..Len(reports) :
                 /\ reports[k].batch = (k - 1) * args.print_freq
                 /\ reports[k].counts[1] = reports[k].batch + 1
                 /\ reports[k].counts[2] = reports[k].batch + 1
                 /\ reports[k].line.index =
                        FormatD(reports[k].batch, progress.batch_fmtstr.width)
           /\ (args.print_freq = 1 /\ pc = "done") => Len(reports) = num_batches

C10_Witness ==
    /\ pc = "done"
    /\ fault = "none"
    /\ args.print_freq = 2
    /\ num_batches = 3
    /\ Len(reports) = 2

====
